---- MODULE Spec2Model ----
(***************************************************************************)
(* Model of keystore2/test_utils/lib.rs: the TempDir lifecycle (new, path, *)
(* do_not_drop, Drop) over a shared temp root, and SecLevel (tee,          *)
(* strongbox, is_keymint, is_keymaster, get_keymint_version) over the      *)
(* keystore2 service and the binder service registry.                      *)
(*                                                                         *)
(* Strings that the code builds (directory names, paths) are sequences of  *)
(* one-character strings, so that formatting and path pushing are computed *)
(* rather than assumed.                                                    *)
(***************************************************************************)
EXTENDS Integers, Sequences, FiniteSets, TLC

\* ------------------------------------------------------------------ bounds

\* Number of TempDir::new callers (test threads or processes) sharing the root.
MaxCalls == 2
\* The random source of the shared-root specifications draws from 0..MaxRand.
MaxRand == 1
\* The ghost collision counter saturates here (the loop itself has no cap).
MaxAttempts == 1
\* Interface versions a KeyMint HAL may report are drawn from 1..MaxVersion.
MaxVersion == 2

\* ------------------------------------------------------- program constants

\* rand::random::<u16>() ranges over 0..U16Max.
U16Max == 65535
\* The minimum field width of {:05}.
Width == 5

Calls == 1..MaxCalls
Rand == 0..MaxRand
U16 == 0..U16Max
\* Owner tag of a directory that some other process created.
Ext == 0
\* Prefixes handed to TempDir::new; none holds a file system separator.
Prefixes == { <<"k">>, <<"k", "_", "7">>, <<"d", "b">> }
\* The prefix the callers that share the temp root all use.
SharedPrefixes == { <<"k">> }
\* ErrorKinds of create_dir other than AlreadyExists.
OtherKinds == { "PermissionDenied", "NotFound" }
None == <<>>

\* ------------------------------------------------------------- formatting

DigitChars == <<"0", "1", "2", "3", "4", "5", "6", "7", "8", "9">>
DigitSet == { DigitChars[i] : i \in 1..10 }

\* Display of an unsigned integer: its decimal digits, no leading zeros.
RECURSIVE Display(_)
Display(n) ==
  IF n < 10 THEN << DigitChars[n + 1] >>
  ELSE Display(n \div 10) \o << DigitChars[(n % 10) + 1] >>

\* Zero padding to a minimum width: longer renderings are left as they are.
ZeroPad(s, w) ==
  IF Len(s) >= w THEN s ELSE [ i \in 1..(w - Len(s)) |-> "0" ] \o s

\* Mutant of FormatName: the number is rendered without padding.
FormatName_NoPad(prefix, number) == prefix \o << "_" >> \o Display(number)

\* format!("{}_{:05}", prefix, number)
FormatName(prefix, number) ==
  prefix \o << "_" >> \o ZeroPad(Display(number), Width)

\* std::env::temp_dir()
temp_dir == << "/", "t", "m", "p" >>

\* PathBuf::push: an absolute segment replaces the path, otherwise the segment
\* is appended after a separator.
push(base, seg) ==
  IF Len(seg) > 0 /\ seg[1] = "/" THEN seg
  ELSE IF Len(base) > 0 /\ base[Len(base)] = "/" THEN base \o seg
  ELSE base \o << "/" >> \o seg

\* The candidate path of one loop iteration.
Candidate(prefix, number) == push(temp_dir, FormatName(prefix, number))

\* ------------------------------------------------------------------ state

VARIABLES
  fs,        \* the temp root: existing directory path -> who created it
  pc,        \* per caller: idle, new (in the loop), alive, failed, dropped, panicked
  arg,       \* per caller: the prefix passed to new
  path,      \* per caller: TempDir.path (None before new returns Ok)
  do_drop,   \* per caller: TempDir.do_drop
  err,       \* per caller: the io::Error kind new returned, or the panic of drop
  attempts,  \* per caller: collisions seen so far (ghost, saturating)
  last,      \* per caller: what its latest create_dir returned (ghost)
  notice,    \* per caller: "Disabled automatic cleanup for: ..." was printed
  registry,  \* service manager: interface name -> "yes" | "no" | "err"
  sec,       \* per constructor (tee, strongbox): its outcome
  ans        \* per constructor and query: the last answer on its handle

tvars == << fs, pc, arg, path, do_drop, err, attempts, last, notice >>
svars == << registry, sec, ans >>
vars ==
  << fs, pc, arg, path, do_drop, err, attempts, last, notice, registry, sec, ans >>

Min(a, b) == IF a < b THEN a ELSE b

\* fs without directory p (remove_dir_all) and with directory p (create_dir).
Removed(f, p) == [ q \in (DOMAIN f) \ {p} |-> f[q] ]
Created(f, p, who) == [ q \in (DOMAIN f) \cup {p} |-> IF q = p THEN who ELSE f[q] ]

\* ---------------------------------------------------------------- TempDir

\* A caller enters TempDir::new(prefix).
new_enter(c, prefix) ==
  /\ pc[c] = "idle"
  /\ pc' = [pc EXCEPT ![c] = "new"]
  /\ arg' = [arg EXCEPT ![c] = prefix]
  /\ UNCHANGED << fs, path, do_drop, err, attempts, last, notice, svars >>

\* Mutant of new_AlreadyExists: the existing name is taken as created.
new_AlreadyExists_Take(c, number) ==
  LET tmp == Candidate(arg[c], number) IN
  /\ pc[c] = "new"
  /\ tmp \in DOMAIN fs
  /\ pc' = [pc EXCEPT ![c] = "alive"]
  /\ path' = [path EXCEPT ![c] = tmp]
  /\ do_drop' = [do_drop EXCEPT ![c] = TRUE]
  /\ last' = [last EXCEPT ![c] = "Ok"]
  /\ UNCHANGED << fs, arg, err, attempts, notice, svars >>

\* Mutant of new_AlreadyExists: the loop gives up after MaxAttempts collisions.
new_AlreadyExists_Capped(c, number) ==
  LET tmp == Candidate(arg[c], number) IN
  /\ pc[c] = "new"
  /\ tmp \in DOMAIN fs
  /\ IF attempts[c] >= MaxAttempts
       THEN /\ pc' = [pc EXCEPT ![c] = "failed"]
            /\ err' = [err EXCEPT ![c] = "AlreadyExists"]
            /\ UNCHANGED attempts
       ELSE /\ attempts' = [attempts EXCEPT ![c] = attempts[c] + 1]
            /\ UNCHANGED << pc, err >>
  /\ last' = [last EXCEPT ![c] = "AlreadyExists"]
  /\ UNCHANGED << fs, arg, path, do_drop, notice, svars >>

\* One loop iteration whose create_dir reports AlreadyExists: continue.
new_AlreadyExists(c, number) ==
  LET tmp == Candidate(arg[c], number) IN
  /\ pc[c] = "new"
  /\ tmp \in DOMAIN fs
  /\ attempts' = [attempts EXCEPT ![c] = Min(attempts[c] + 1, MaxAttempts)]
  /\ last' = [last EXCEPT ![c] = "AlreadyExists"]
  /\ UNCHANGED << fs, pc, arg, path, do_drop, err, notice, svars >>

\* Mutant of new_Err: every create_dir error makes the loop try again.
new_Err_Retry(c, number, kind) ==
  /\ pc[c] = "new"
  /\ attempts' = [attempts EXCEPT ![c] = Min(attempts[c] + 1, MaxAttempts)]
  /\ last' = [last EXCEPT ![c] = kind]
  /\ UNCHANGED << fs, pc, arg, path, do_drop, err, notice, svars >>

\* One loop iteration whose create_dir fails with another kind: return Err(e).
new_Err(c, number, kind) ==
  /\ pc[c] = "new"
  /\ pc' = [pc EXCEPT ![c] = "failed"]
  /\ err' = [err EXCEPT ![c] = kind]
  /\ last' = [last EXCEPT ![c] = kind]
  /\ UNCHANGED << fs, arg, path, do_drop, attempts, notice, svars >>

\* One loop iteration whose create_dir succeeds: break tmp, then
\* Ok(Self { path: tmp, do_drop: true }).
new_Ok(c, number) ==
  LET tmp == Candidate(arg[c], number) IN
  /\ pc[c] = "new"
  /\ tmp \notin DOMAIN fs
  /\ fs' = Created(fs, tmp, c)
  /\ pc' = [pc EXCEPT ![c] = "alive"]
  /\ path' = [path EXCEPT ![c] = tmp]
  /\ do_drop' = [do_drop EXCEPT ![c] = TRUE]
  /\ last' = [last EXCEPT ![c] = "Ok"]
  /\ UNCHANGED << arg, err, attempts, notice, svars >>

\* TempDir::path
TempDir_path(c) == path[c]

\* Mutant of do_not_drop: only the notice is printed.
do_not_drop_Noop(c) ==
  /\ pc[c] = "alive"
  /\ notice' = [notice EXCEPT ![c] = TRUE]
  /\ UNCHANGED << fs, pc, arg, path, do_drop, err, attempts, last, svars >>

\* TempDir::do_not_drop
do_not_drop(c) ==
  /\ pc[c] = "alive"
  /\ notice' = [notice EXCEPT ![c] = TRUE]
  /\ do_drop' = [do_drop EXCEPT ![c] = FALSE]
  /\ UNCHANGED << fs, pc, arg, path, err, attempts, last, svars >>

\* Drop for TempDir. With do_drop set, remove_dir_all either removes the
\* directory or fails, and the failure panics ("Cannot delete temporary dir.")
\* leaving the directory in place; with do_drop cleared nothing is removed.
drop(c) ==
  /\ pc[c] = "alive"
  /\ \/ /\ do_drop[c]
        /\ fs' = Removed(fs, path[c])
        /\ pc' = [pc EXCEPT ![c] = "dropped"]
        /\ UNCHANGED err
     \/ /\ do_drop[c]
        /\ pc' = [pc EXCEPT ![c] = "panicked"]
        /\ err' = [err EXCEPT ![c] = "Cannot delete temporary dir."]
        /\ UNCHANGED fs
     \/ /\ ~do_drop[c]
        /\ pc' = [pc EXCEPT ![c] = "dropped"]
        /\ UNCHANGED << fs, err >>
  /\ UNCHANGED << arg, path, do_drop, attempts, last, notice, svars >>

\* Another process creates a candidate name under the shared temp root.
ext_create(prefix, number) ==
  LET tmp == Candidate(prefix, number) IN
  /\ tmp \notin DOMAIN fs
  /\ fs' = Created(fs, tmp, Ext)
  /\ UNCHANGED << pc, arg, path, do_drop, err, attempts, last, notice, svars >>

\* Another process removes a directory that it created itself.
ext_remove(prefix, number) ==
  LET tmp == Candidate(prefix, number) IN
  /\ tmp \in DOMAIN fs
  /\ fs[tmp] = Ext
  /\ fs' = Removed(fs, tmp)
  /\ UNCHANGED << pc, arg, path, do_drop, err, attempts, last, notice, svars >>

\* --------------------------------------------------------------- SecLevel

TRUSTED_ENVIRONMENT == "TRUSTED_ENVIRONMENT"
STRONGBOX == "STRONGBOX"
KS2_SERVICE_NAME == "android.system.keystore2.IKeystoreService/default"
KEYMINT_INTERFACE == "android.hardware.security.keymint.IKeyMintDevice"

\* The two constructors of SecLevel.
Ctors == { "tee", "strongbox" }
\* Binder objects the keystore2 service may hand out.
Binders == { "binder_1", "binder_2" }
NoBinder == "-"
Versions == 1..MaxVersion

\* binder::Status values getSecurityLevel may fail with.
Statuses ==
  { [exception |-> "SERVICE_SPECIFIC", se |-> "HARDWARE_TYPE_UNAVAILABLE"],
    [exception |-> "SERVICE_SPECIFIC", se |-> "SECURE_HW_COMMUNICATION_FAILED"],
    [exception |-> "SERVICE_SPECIFIC", se |-> "SYSTEM_ERROR"],
    [exception |-> "TRANSACTION_FAILED", se |-> "-"] }
NoStatus == [exception |-> "-", se |-> "-"]

\* What keystore2.getSecurityLevel(level) may return: Ok(binder) or Err(status).
LookupOutcomes ==
  { [ok |-> TRUE, binder |-> b, status |-> NoStatus] : b \in Binders }
    \cup { [ok |-> FALSE, binder |-> NoBinder, status |-> s] : s \in Statuses }
NoLookup == [ok |-> FALSE, binder |-> NoBinder, status |-> NoStatus]

\* Service specific codes that are KeyMint ErrorCodes (the others are
\* keystore2 ResponseCodes).
KmCodes == { "HARDWARE_TYPE_UNAVAILABLE", "SECURE_HW_COMMUNICATION_FAILED" }

NoFailure == [variant |-> "-", exception |-> "-", se |-> "-"]
\* key_generations::Error::Km(ErrorCode::HARDWARE_TYPE_UNAVAILABLE)
Km_HARDWARE_TYPE_UNAVAILABLE ==
  [variant |-> "Km", exception |-> "SERVICE_SPECIFIC", se |-> "HARDWARE_TYPE_UNAVAILABLE"]
\* The failure of binder::get_interface(KS2_SERVICE_NAME).
GetInterfaceFailure ==
  [variant |-> "StatusCode", exception |-> "NAME_NOT_FOUND", se |-> KS2_SERVICE_NAME]
\* A binder::Status as a panic payload.
StatusFailure(s) == [variant |-> "Status", exception |-> s.exception, se |-> s.se]

\* key_generations::map_ks_error: Ok passes through; a service specific status
\* becomes Error::Km or Error::Rc by its code, any other status Error::Binder.
map_ks_error(r) ==
  IF r.ok THEN [ok |-> TRUE, binder |-> r.binder, error |-> NoFailure]
  ELSE [ok |-> FALSE, binder |-> NoBinder,
        error |-> IF r.status.exception = "SERVICE_SPECIFIC"
                    THEN [variant |-> IF r.status.se \in KmCodes THEN "Km" ELSE "Rc",
                          exception |-> r.status.exception, se |-> r.status.se]
                    ELSE [variant |-> "Binder",
                          exception |-> r.status.exception, se |-> r.status.se]]

\* Outcomes of a constructor.
Unresolved ==
  [kind |-> "unresolved", keystore2 |-> "-", binder |-> NoBinder, level |-> "-",
   failure |-> NoFailure]
SecPanic(f) ==
  [kind |-> "panic", keystore2 |-> "-", binder |-> NoBinder, level |-> "-",
   failure |-> f]
SecAbsent ==
  [kind |-> "absent", keystore2 |-> "-", binder |-> NoBinder, level |-> "-",
   failure |-> NoFailure]
SecSelf(keystore2, binder, level) ==
  [kind |-> "handle", keystore2 |-> keystore2, binder |-> binder, level |-> level,
   failure |-> NoFailure]

\* get_keystore_service, given whether the lookup of KS2_SERVICE_NAME succeeds:
\* the service, or the panic of unwrap.
get_keystore_service(found) ==
  IF found THEN [ok |-> TRUE, service |-> KS2_SERVICE_NAME, failure |-> NoFailure]
  ELSE [ok |-> FALSE, service |-> "-", failure |-> GetInterfaceFailure]

\* Mutant of tee_result: a failed lookup yields a handle without a binder.
tee_result_Masked(found, r) ==
  LET ks == get_keystore_service(found) IN
  IF ~ks.ok THEN SecPanic(ks.failure)
  ELSE SecSelf(ks.service, r.binder, TRUSTED_ENVIRONMENT)

\* SecLevel::tee, given the outcomes of the two lookups it makes.
tee_result(found, r) ==
  LET ks == get_keystore_service(found) IN
  IF ~ks.ok THEN SecPanic(ks.failure)
  ELSE IF r.ok THEN SecSelf(ks.service, r.binder, TRUSTED_ENVIRONMENT)
  ELSE SecPanic(StatusFailure(r.status))

\* Mutant of strongbox_result: every failed lookup counts as absent.
strongbox_result_AnyAbsent(found, r) ==
  LET ks == get_keystore_service(found) IN
  IF ~ks.ok THEN SecPanic(ks.failure)
  ELSE LET m == map_ks_error(r) IN
       IF m.ok THEN SecSelf(ks.service, m.binder, STRONGBOX) ELSE SecAbsent

\* Mutant of strongbox_result: the handle is tagged with the TEE level.
strongbox_result_WrongTag(found, r) ==
  LET ks == get_keystore_service(found) IN
  IF ~ks.ok THEN SecPanic(ks.failure)
  ELSE LET m == map_ks_error(r) IN
       IF m.ok THEN SecSelf(ks.service, m.binder, TRUSTED_ENVIRONMENT)
       ELSE IF m.error = Km_HARDWARE_TYPE_UNAVAILABLE THEN SecAbsent
       ELSE SecPanic(m.error)

\* SecLevel::strongbox, given the outcomes of the two lookups it makes.
strongbox_result(found, r) ==
  LET ks == get_keystore_service(found) IN
  IF ~ks.ok THEN SecPanic(ks.failure)
  ELSE LET m == map_ks_error(r) IN
       IF m.ok THEN SecSelf(ks.service, m.binder, STRONGBOX)
       ELSE IF m.error = Km_HARDWARE_TYPE_UNAVAILABLE THEN SecAbsent
       ELSE SecPanic(m.error)

\* The level each constructor asks the service for.
LevelOf(k) == IF k = "tee" THEN TRUSTED_ENVIRONMENT ELSE STRONGBOX

\* SecLevel::tee and SecLevel::strongbox as steps: the lookups' outcomes are
\* inputs; asked and got record the getSecurityLevel call that was made.
tee ==
  /\ sec["tee"].res.kind = "unresolved"
  /\ \E found \in BOOLEAN : \E r \in LookupOutcomes :
       sec' = [sec EXCEPT !["tee"] =
                 [res |-> tee_result(found, r),
                  asked |-> IF found THEN TRUSTED_ENVIRONMENT ELSE "-",
                  got |-> IF found THEN r ELSE NoLookup]]
  /\ UNCHANGED << tvars, registry, ans >>

strongbox ==
  /\ sec["strongbox"].res.kind = "unresolved"
  /\ \E found \in BOOLEAN : \E r \in LookupOutcomes :
       sec' = [sec EXCEPT !["strongbox"] =
                 [res |-> strongbox_result(found, r),
                  asked |-> IF found THEN STRONGBOX ELSE "-",
                  got |-> IF found THEN r ELSE NoLookup]]
  /\ UNCHANGED << tvars, registry, ans >>

\* The instance name of a level (the match on self.level); "panic" stands for
\* the arm panic!("unexpected level").
instance_of(level) ==
  CASE level = TRUSTED_ENVIRONMENT -> "default"
    [] level = STRONGBOX -> "strongbox"
    [] OTHER -> "panic"

\* format!("android.hardware.security.keymint.IKeyMintDevice/{instance}")
keymint_name(instance) == << KEYMINT_INTERFACE, "/", instance >>

Names == { keymint_name("default"), keymint_name("strongbox") }
\* binder::is_declared(name): Ok(true), Ok(false) or Err.
Declared == { "yes", "no", "err" }

\* What get_interface(name) and then getInterfaceVersion() may produce: no
\* interface, an interface whose version call fails, or a version.
HalOutcomes ==
  { [iface |-> FALSE, verr |-> FALSE, v |-> 0], [iface |-> TRUE, verr |-> TRUE, v |-> 0] }
    \cup { [iface |-> TRUE, verr |-> FALSE, v |-> k] : k \in Versions }

\* The outcome of a query: a value (b or n) or a panic, and the registry
\* calls the query made, in order.
Value(b, n, calls) == [panic |-> FALSE, msg |-> "-", b |-> b, n |-> n, calls |-> calls]
Panic(msg, calls) == [panic |-> TRUE, msg |-> msg, b |-> FALSE, n |-> 0, calls |-> calls]

\* SecLevel::is_keymint against registry reg.
is_keymint(self, reg) ==
  LET instance == instance_of(self.level) IN
  IF instance = "panic" THEN Panic("unexpected level", << >>)
  ELSE LET name == keymint_name(instance) IN
       LET calls == << << "is_declared", name >> >> IN
       IF reg[name] = "err"
         THEN Panic("Could not check for declared keymint interface", calls)
         ELSE Value(reg[name] = "yes", 0, calls)

\* Mutant of is_keymaster: the negation is missing.
is_keymaster_Same(self, reg) == is_keymint(self, reg)

\* SecLevel::is_keymaster: !self.is_keymint()
is_keymaster(self, reg) ==
  LET r == is_keymint(self, reg) IN
  IF r.panic THEN r ELSE [r EXCEPT !.b = ~r.b]

\* Mutant of get_keymint_version: the interface is resolved and asked for its
\* version whether or not it is declared.
get_keymint_version_Always(self, reg, hal) ==
  LET instance == instance_of(self.level) IN
  IF instance = "panic" THEN Panic("unexpected level", << >>)
  ELSE LET name == keymint_name(instance) IN
       LET c1 == << << "is_declared", name >> >> IN
       LET c2 == c1 \o << << "get_interface", name >> >> IN
       LET c3 == c2 \o << << "getInterfaceVersion", name >> >> IN
       IF reg[name] = "err"
         THEN Panic("Could not check for declared keymint interface", c1)
       ELSE IF ~hal.iface THEN Panic("get_interface", c2)
       ELSE IF hal.verr THEN Panic("getInterfaceVersion", c3)
       ELSE Value(FALSE, hal.v, c3)

\* SecLevel::get_keymint_version against registry reg, hal being what the
\* interface lookup and its version call produce if they are made.
get_keymint_version(self, reg, hal) ==
  LET instance == instance_of(self.level) IN
  IF instance = "panic" THEN Panic("unexpected level", << >>)
  ELSE LET name == keymint_name(instance) IN
       LET c1 == << << "is_declared", name >> >> IN
       LET c2 == c1 \o << << "get_interface", name >> >> IN
       LET c3 == c2 \o << << "getInterfaceVersion", name >> >> IN
       IF reg[name] = "err"
         THEN Panic("Could not check for declared keymint interface", c1)
       ELSE IF reg[name] = "yes"
         THEN IF ~hal.iface THEN Panic("get_interface", c2)
              ELSE IF hal.verr THEN Panic("getInterfaceVersion", c3)
              ELSE Value(FALSE, hal.v, c3)
       ELSE Value(FALSE, 0, c1)

Queries == { "is_keymint", "is_keymaster", "get_keymint_version" }
NoAnswer == [on |-> "-", seen |-> "-", hal |-> [iface |-> FALSE, verr |-> FALSE, v |-> 0],
             out |-> Value(FALSE, 0, << >>)]
\* The registry entry a handle's queries read.
Entry(self) == registry[keymint_name(instance_of(self.level))]

\* A test calls a query on the handle constructor k returned; the answer is
\* recorded with the registry entry it was computed from.
call_is_keymint(k) ==
  /\ sec[k].res.kind = "handle"
  /\ ans' = [ans EXCEPT !["is_keymint"] =
               [on |-> k, seen |-> Entry(sec[k].res), hal |-> NoAnswer.hal,
                out |-> is_keymint(sec[k].res, registry)]]
  /\ UNCHANGED << tvars, registry, sec >>

call_is_keymaster(k) ==
  /\ sec[k].res.kind = "handle"
  /\ ans' = [ans EXCEPT !["is_keymaster"] =
               [on |-> k, seen |-> Entry(sec[k].res), hal |-> NoAnswer.hal,
                out |-> is_keymaster(sec[k].res, registry)]]
  /\ UNCHANGED << tvars, registry, sec >>

call_get_keymint_version(k) ==
  /\ sec[k].res.kind = "handle"
  /\ \E hal \in HalOutcomes :
       ans' = [ans EXCEPT !["get_keymint_version"] =
                 [on |-> k, seen |-> Entry(sec[k].res), hal |-> hal,
                  out |-> get_keymint_version(sec[k].res, registry, hal)]]
  /\ UNCHANGED << tvars, registry, sec >>

\* A HAL service is registered or withdrawn, or the service manager fails.
registry_update(name, d) ==
  /\ registry[name] # d
  /\ registry' = [registry EXCEPT ![name] = d]
  /\ UNCHANGED << tvars, sec, ans >>

\* --------------------------------------------------------- specifications

InitTempDir ==
  /\ fs = [ p \in {} |-> Ext ]
  /\ pc = [ c \in Calls |-> "idle" ]
  /\ arg = [ c \in Calls |-> None ]
  /\ path = [ c \in Calls |-> None ]
  /\ do_drop = [ c \in Calls |-> FALSE ]
  /\ err = [ c \in Calls |-> "-" ]
  /\ attempts = [ c \in Calls |-> 0 ]
  /\ last = [ c \in Calls |-> "-" ]
  /\ notice = [ c \in Calls |-> FALSE ]

InitSecLevel ==
  /\ sec = [ k \in Ctors |-> [res |-> Unresolved, asked |-> "-", got |-> NoLookup] ]
  /\ ans = [ q \in Queries |-> NoAnswer ]

\* The temp root as the tests find it, and no HAL declared yet.
Init ==
  /\ InitTempDir
  /\ InitSecLevel
  /\ registry = [ n \in Names |-> "no" ]

\* Callers of TempDir sharing the temp root with other processes.
Next ==
  \/ \E c \in Calls : \E prefix \in SharedPrefixes : new_enter(c, prefix)
  \/ \E c \in Calls : \E number \in Rand : new_AlreadyExists(c, number)
  \/ \E c \in Calls : \E number \in Rand : \E kind \in OtherKinds : new_Err(c, number, kind)
  \/ \E c \in Calls : \E number \in Rand : new_Ok(c, number)
  \/ \E c \in Calls : do_not_drop(c)
  \/ \E c \in Calls : drop(c)
  \/ \E prefix \in SharedPrefixes : \E number \in Rand : ext_create(prefix, number)
  \/ \E prefix \in SharedPrefixes : \E number \in Rand : ext_remove(prefix, number)

Spec == Init /\ [][Next]_vars

\* One caller, the random source ranging over all of u16.
NextName ==
  \/ \E prefix \in Prefixes : new_enter(1, prefix)
  \/ pc[1] = "new" /\ \E number \in U16 : new_Ok(1, number)

SpecName == Init /\ [][NextName]_vars

\* Directory creation fails through collisions only.
NextLive ==
  \/ \E c \in Calls : \E prefix \in SharedPrefixes : new_enter(c, prefix)
  \/ \E c \in Calls : \E number \in Rand : new_AlreadyExists(c, number)
  \/ \E c \in Calls : \E number \in Rand : new_Ok(c, number)
  \/ \E c \in Calls : drop(c)
  \/ \E prefix \in SharedPrefixes : \E number \in Rand : ext_create(prefix, number)
  \/ \E prefix \in SharedPrefixes : \E number \in Rand : ext_remove(prefix, number)

\* A fair random source: a caller in the loop that could, again and again,
\* draw a number whose name is free does draw one.
LiveSpec ==
  /\ Init
  /\ [][NextLive]_vars
  /\ \A c \in Calls : SF_vars(\E number \in Rand : new_Ok(c, number))

\* The tests of SecLevel, against any service and any registry.
InitSec ==
  /\ InitTempDir
  /\ InitSecLevel
  /\ registry \in [ Names -> Declared ]

NextSec ==
  \/ tee
  \/ strongbox
  \/ \E k \in Ctors : call_is_keymint(k)
  \/ \E k \in Ctors : call_is_keymaster(k)
  \/ \E k \in Ctors : call_get_keymint_version(k)
  \/ \E name \in Names : \E d \in Declared : registry_update(name, d)

SpecSec == InitSec /\ [][NextSec]_vars

\* ----------------------------------------------------------------- claims

\* Path::parent and Path::file_name of a path with at least one separator.
LastSep(p) == CHOOSE i \in 1..Len(p) : p[i] = "/" /\ \A j \in (i + 1)..Len(p) : p[j] # "/"
parent(p) == SubSeq(p, 1, LastSep(p) - 1)
file_name(p) == SubSeq(p, LastSep(p) + 1, Len(p))

\* The directory that caller c created is still there.
OwnDirExists(c) == path[c] \in DOMAIN fs /\ fs[path[c]] = c
\* Caller c created some directory that is there.
OwnsSome(c) == \E p \in DOMAIN fs : fs[p] = c
\* One iteration of the loop of new, whatever create_dir returns.
Attempt(c) ==
  \E number \in Rand :
    \/ new_AlreadyExists(c, number)
    \/ new_Ok(c, number)
    \/ \E kind \in OtherKinds : new_Err(c, number, kind)
\* Every name the random source can give caller c's prefix is taken.
NoFreeName(c) == \A number \in Rand : Candidate(arg[c], number) \in DOMAIN fs

\* C1: two live handles allocated with the same prefix under the same temp
\* root never hold the same path, and the path a handle holds is a directory
\* its own call created: never a name that existed already.
C1_DistinctPaths ==
  /\ \A c \in Calls : pc[c] = "alive" => OwnDirExists(c)
  /\ \A c1 \in Calls : \A c2 \in Calls :
       (c1 # c2 /\ pc[c1] = "alive" /\ pc[c2] = "alive" /\ arg[c1] = arg[c2])
         => TempDir_path(c1) # TempDir_path(c2)

\* Two handles of the same prefix are alive, one of them allocated after its
\* first candidate name was found to exist.
C1_Witness ==
  \E c1 \in Calls : \E c2 \in Calls :
    /\ c1 # c2 /\ arg[c1] = arg[c2]
    /\ pc[c1] = "alive" /\ pc[c2] = "alive"
    /\ attempts[c2] >= 1

C8_OtherErrorAborts ==
  \A c \in Calls :
    /\ last[c] \in OtherKinds =>
         /\ pc[c] = "failed"
         /\ err[c] = last[c]
         /\ path[c] = None
         /\ ~OwnsSome(c)
         /\ ~ENABLED Attempt(c)
    /\ pc[c] = "failed" => last[c] \in OtherKinds /\ err[c] # "AlreadyExists"

\* A call that first collided and then met another failure has returned it.
C8_Witness ==
  \E c \in Calls : pc[c] = "failed" /\ attempts[c] >= 1 /\ err[c] = "PermissionDenied"

\* C9: the path of a handle lies directly under the temp root and its final
\* segment is the prefix, an underscore and exactly 5 decimal digits.
C9_NameShape ==
  \A c \in Calls :
    pc[c] = "alive" =>
      LET p == TempDir_path(c)
          seg == file_name(p)
          n == Len(arg[c])
      IN /\ parent(p) = temp_dir
         /\ Len(seg) = n + 1 + 5
         /\ SubSeq(seg, 1, n) = arg[c]
         /\ seg[n + 1] = "_"
         /\ \A i \in (n + 2)..(n + 6) : seg[i] \in DigitSet

\* A handle whose number needed padding: prefix k_7, number 42.
C9_Witness ==
  pc[1] = "alive" /\ file_name(TempDir_path(1)) = << "k", "_", "7", "_", "0", "0", "0", "4", "2" >>

\* C10: a caller in the loop of new eventually holds a handle, unless every
\* name the random source can give is taken at some later moment; the number
\* of collisions before that is not bounded.
C10_EventuallyAllocated ==
  \A c \in Calls : (pc[c] = "new") ~> (pc[c] = "alive" \/ NoFreeName(c))

\* A handle allocated after as many collisions as the counter can count.
C10_Witness ==
  \E c \in Calls : pc[c] = "alive" /\ attempts[c] = MaxAttempts /\ last[c] = "Ok"

HwUnavailable == [exception |-> "SERVICE_SPECIFIC", se |-> "HARDWARE_TYPE_UNAVAILABLE"]

\* C3: strongbox() yields absent, and no panic, when getSecurityLevel fails
\* with HARDWARE_TYPE_UNAVAILABLE; when it succeeds, strongbox() yields a
\* handle tagged STRONGBOX holding the binder returned for STRONGBOX.
C3_StrongboxAbsentOrTagged ==
  LET s == sec["strongbox"] IN
  /\ (s.asked # "-" /\ ~s.got.ok /\ s.got.status = HwUnavailable) => s.res = SecAbsent
  /\ (s.asked # "-" /\ s.got.ok) =>
       /\ s.asked = STRONGBOX
       /\ s.res.kind = "handle"
       /\ s.res.level = STRONGBOX
       /\ s.res.binder = s.got.binder
  /\ s.res.kind = "handle" => s.got.ok

\* strongbox() returned None on HARDWARE_TYPE_UNAVAILABLE.
C3_Witness ==
  /\ sec["strongbox"].res.kind = "absent"
  /\ sec["strongbox"].asked = STRONGBOX
  /\ sec["strongbox"].got.status = HwUnavailable

\* C4: any other failure of getSecurityLevel(STRONGBOX) reaches the caller of
\* strongbox() as that failure (the panic of the assertion carries it): it is
\* neither absent nor a handle.
C4_OtherFailurePropagated ==
  LET s == sec["strongbox"] IN
  (s.asked # "-" /\ ~s.got.ok /\ s.got.status # HwUnavailable) =>
    /\ s.res.kind = "panic"
    /\ s.res.failure.exception = s.got.status.exception
    /\ s.res.failure.se = s.got.status.se

\* strongbox() met a transaction failure.
C4_Witness ==
  /\ sec["strongbox"].res.kind = "panic"
  /\ sec["strongbox"].asked = STRONGBOX
  /\ sec["strongbox"].got.status.exception = "TRANSACTION_FAILED"

\* C5: a failure of getSecurityLevel(TRUSTED_ENVIRONMENT), whatever it is,
\* reaches the caller of tee() as that failure, and no handle is built; a
\* handle is built only from a successful lookup, and holds its binder.
C5_TeeFailurePropagated ==
  LET s == sec["tee"] IN
  /\ (s.asked # "-" /\ ~s.got.ok) =>
       /\ s.asked = TRUSTED_ENVIRONMENT
       /\ s.res = SecPanic(StatusFailure(s.got.status))
  /\ s.res.kind = "handle" => s.got.ok /\ s.res.binder = s.got.binder
  /\ s.res.kind \in { "unresolved", "handle", "panic" }

\* tee() met HARDWARE_TYPE_UNAVAILABLE, which is fatal for the TEE.
C5_Witness ==
  /\ sec["tee"].res.kind = "panic"
  /\ sec["tee"].asked = TRUSTED_ENVIRONMENT
  /\ sec["tee"].got.status = HwUnavailable

\* C6: on one handle and one registry entry, is_keymint and is_keymaster
\* return opposite booleans, and both panic exactly when the declaration
\* check fails.
C6_Complementary ==
  LET a == ans["is_keymint"]
      b == ans["is_keymaster"]
  IN /\ a.on # "-" => (a.out.panic <=> a.seen = "err")
     /\ b.on # "-" => (b.out.panic <=> b.seen = "err")
     /\ (a.on # "-" /\ a.on = b.on /\ a.seen = b.seen /\ ~a.out.panic)
          => (~b.out.panic /\ a.out.b # b.out.b)

\* Both were asked on the StrongBox handle while its KeyMint was declared.
C6_Witness ==
  /\ ans["is_keymint"].on = "strongbox" /\ ans["is_keymaster"].on = "strongbox"
  /\ ans["is_keymint"].seen = "yes" /\ ans["is_keymaster"].seen = "yes"
  /\ ans["is_keymint"].out.b /\ ~ans["is_keymaster"].out.b

\* C7: with the KeyMint interface of the handle's level not declared,
\* get_keymint_version returns 0 after the declaration check alone; it
\* resolves the interface, under the name derived from the level, and
\* returns the version that interface reports only when it is declared.
C7_VersionZeroIfLegacy ==
  LET a == ans["get_keymint_version"]
      name == keymint_name(instance_of(LevelOf(a.on)))
  IN a.on # "-" =>
       /\ a.seen = "no" =>
            /\ ~a.out.panic
            /\ a.out.n = 0
            /\ a.out.calls = << << "is_declared", name >> >>
       /\ (\E i \in 1..Len(a.out.calls) : a.out.calls[i][1] # "is_declared")
            => a.seen = "yes"
       /\ (a.seen = "yes" /\ a.hal.iface /\ ~a.hal.verr) =>
            /\ ~a.out.panic
            /\ a.out.n = a.hal.v
            /\ a.out.calls = << << "is_declared", name >>, << "get_interface", name >>,
                                << "getInterfaceVersion", name >> >>

\* The version of a Keymaster TEE was asked for.
C7_Witness ==
  /\ ans["get_keymint_version"].on = "tee"
  /\ ans["get_keymint_version"].seen = "no"
  /\ ans["get_keymint_version"].out.n = 0
  /\ ~ans["get_keymint_version"].out.panic

====
